---- MODULE Spec2Model ----
(***************************************************************************)
(* NemisisFinder matching engine (rust-matcher): participants, the four    *)
(* scoring strategies and the greedy matcher.                              *)
(*                                                                         *)
(* Scores are f64 values.  They are modelled bit-exactly: a finite f64 is  *)
(* sign * mantissa * 2^exponent with a 53-bit mantissa, and every product  *)
(* and sum is rounded to nearest, ties to even, as the hardware does.      *)
(***************************************************************************)
EXTENDS Integers, Sequences, FiniteSets, TLC

\* ------------------------------------------------------------------------
\* Natural numbers wider than a machine word: little-endian sequences of
\* 13-bit limbs without leading zero limbs (<<>> is 0).  They carry the
\* exact 106-bit products and aligned sums that f64 arithmetic rounds.
\* ------------------------------------------------------------------------

LimbBits == 13

RECURSIVE Pow2(_)
Pow2(n) == IF n = 0 THEN 1 ELSE 2 * Pow2(n - 1)

LimbBase == Pow2(LimbBits)

Limb(x, i) == IF i >= 1 /\ i <= Len(x) THEN x[i] ELSE 0

MaxOf(a, b) == IF a >= b THEN a ELSE b

MinOf(a, b) == IF a <= b THEN a ELSE b

RECURSIVE BTrim(_)
BTrim(x) ==
    IF x = <<>> THEN <<>>
    ELSE IF x[Len(x)] = 0 THEN BTrim(SubSeq(x, 1, Len(x) - 1))
    ELSE x

\* Carry propagation over a sequence of column sums.
RECURSIVE BCarry(_, _)
BCarry(cols, c) ==
    IF cols = <<>>
    THEN IF c = 0 THEN <<>> ELSE <<c % LimbBase>> \o BCarry(<<>>, c \div LimbBase)
    ELSE LET t == cols[1] + c
         IN  <<t % LimbBase>> \o BCarry(Tail(cols), t \div LimbBase)

BAdd(x, y) ==
    BTrim(BCarry([i \in 1..MaxOf(Len(x), Len(y)) |-> Limb(x, i) + Limb(y, i)], 0))

RECURSIVE BColSum(_, _, _, _)
BColSum(x, y, k, i) ==
    IF i > Len(x) THEN 0
    ELSE Limb(x, i) * Limb(y, k + 1 - i) + BColSum(x, y, k, i + 1)

BMul(x, y) ==
    IF x = <<>> \/ y = <<>> THEN <<>>
    ELSE BTrim(BCarry([k \in 1..(Len(x) + Len(y) - 1) |-> BColSum(x, y, k, 1)], 0))

\* x - y for x >= y.
RECURSIVE BBorrow(_, _, _, _)
BBorrow(x, y, i, b) ==
    IF i > Len(x) THEN <<>>
    ELSE LET t == Limb(x, i) - Limb(y, i) - b
         IN  IF t < 0 THEN <<t + LimbBase>> \o BBorrow(x, y, i + 1, 1)
             ELSE <<t>> \o BBorrow(x, y, i + 1, 0)

BSub(x, y) == BTrim(BBorrow(x, y, 1, 0))

\* -1, 0, 1 as x <, =, > y.
RECURSIVE BCmpFrom(_, _, _)
BCmpFrom(x, y, i) ==
    IF i = 0 THEN 0
    ELSE IF x[i] < y[i] THEN -1
    ELSE IF x[i] > y[i] THEN 1
    ELSE BCmpFrom(x, y, i - 1)

BCmp(x, y) ==
    IF Len(x) < Len(y) THEN -1
    ELSE IF Len(x) > Len(y) THEN 1
    ELSE BCmpFrom(x, y, Len(x))

BShl(x, k) ==
    LET q == k \div LimbBits
        r == k % LimbBits
    IN  BTrim(BCarry([i \in 1..(Len(x) + q) |->
                        IF i <= q THEN 0 ELSE x[i - q] * Pow2(r)], 0))

BShr(x, k) ==
    LET q == k \div LimbBits
        r == k % LimbBits
        n == Len(x) - q
    IN  IF n <= 0 THEN <<>>
        ELSE BTrim([i \in 1..n |->
                      (Limb(x, i + q) \div Pow2(r))
                      + (Limb(x, i + q + 1) % Pow2(r)) * Pow2(LimbBits - r)])

RECURSIVE IntBitLen(_)
IntBitLen(n) == IF n = 0 THEN 0 ELSE 1 + IntBitLen(n \div 2)

BBitLen(x) ==
    IF x = <<>> THEN 0 ELSE LimbBits * (Len(x) - 1) + IntBitLen(x[Len(x)])

\* Bit k of x, bit 0 being the least significant.
BBit(x, k) == (Limb(x, (k \div LimbBits) + 1) \div Pow2(k % LimbBits)) % 2

\* Whether the k low bits of x are all zero.
BLowZero(x, k) == BShl(BShr(x, k), k) = x

RECURSIVE BFromInt(_)
BFromInt(n) ==
    IF n = 0 THEN <<>> ELSE <<n % LimbBase>> \o BFromInt(n \div LimbBase)

\* ------------------------------------------------------------------------
\* f64: [neg, m, e] is (-1)^neg * m * 2^e; m is 0 (<<>>, with neg = FALSE
\* and e = 0: +0.0 and -0.0 compare equal) or has exactly MantBits bits.
\* Exponents stay far from the overflow and subnormal ranges for every
\* value the model builds (answers 1..7, a few questions, multipliers of
\* moderate size).
\* ------------------------------------------------------------------------

MantBits == 53

FZero == [neg |-> FALSE, m |-> <<>>, e |-> 0]

\* The f64 nearest to (-1)^neg * n * 2^e, ties to even.
FRound(neg, n, e) ==
    LET len == BBitLen(n)
    IN  IF len = 0 THEN FZero
        ELSE IF len <= MantBits
        THEN [neg |-> neg, m |-> BShl(n, MantBits - len), e |-> e - (MantBits - len)]
        ELSE LET sh     == len - MantBits
                 q      == BShr(n, sh)
                 guard  == BBit(n, sh - 1) = 1
                 sticky == ~BLowZero(n, sh - 1)
                 up     == guard /\ (sticky \/ BBit(q, 0) = 1)
                 q1     == IF up THEN BAdd(q, <<1>>) ELSE q
             IN  IF BBitLen(q1) > MantBits
                 THEN [neg |-> neg, m |-> BShr(q1, 1), e |-> e + sh + 1]
                 ELSE [neg |-> neg, m |-> q1, e |-> e + sh]

\* `n as f64` for an i32 n (exact: |n| < 2^53).
FFromInt(n) == IF n < 0 THEN FRound(TRUE, BFromInt(-n), 0)
               ELSE FRound(FALSE, BFromInt(n), 0)

\* x * y
FMul(x, y) ==
    IF x.m = <<>> \/ y.m = <<>> THEN FZero
    ELSE FRound(x.neg # y.neg, BMul(x.m, y.m), x.e + y.e)

\* x + y
FAdd(x, y) ==
    IF x.m = <<>> THEN y
    ELSE IF y.m = <<>> THEN x
    ELSE LET e0 == MinOf(x.e, y.e)
             nx == BShl(x.m, x.e - e0)
             ny == BShl(y.m, y.e - e0)
             c  == BCmp(nx, ny)
         IN  IF x.neg = y.neg THEN FRound(x.neg, BAdd(nx, ny), e0)
             ELSE IF c = 0 THEN FZero
             ELSE IF c > 0 THEN FRound(x.neg, BSub(nx, ny), e0)
             ELSE FRound(y.neg, BSub(ny, nx), e0)

\* x < y (partial_cmp's order on finite values).  Mantissas of non-zero
\* values have the same width, so the exponent decides first.
FMagLess(x, y) == x.e < y.e \/ (x.e = y.e /\ BCmp(x.m, y.m) < 0)

FLess(x, y) ==
    IF x.m = <<>> THEN y.m # <<>> /\ ~y.neg
    ELSE IF y.m = <<>> THEN x.neg
    ELSE IF x.neg # y.neg THEN x.neg
    ELSE IF x.neg THEN FMagLess(y, x)
    ELSE FMagLess(x, y)

\* floor(sqrt(n)), one result bit at a time from bit `bit` down.
RECURSIVE BSqrtBits(_, _, _)
BSqrtBits(n, bit, r) ==
    IF bit < 0 THEN r
    ELSE LET c == BAdd(r, BShl(<<1>>, bit))
         IN  IF BCmp(BMul(c, c), n) <= 0 THEN BSqrtBits(n, bit - 1, c)
             ELSE BSqrtBits(n, bit - 1, r)

\* x.sqrt() for x >= 0: the f64 nearest to the square root.  The root is
\* taken of the mantissa scaled by 4^SqrtGuard (and by 2 more when the
\* exponent is odd), and one more bit records an inexact root.
SqrtGuard == 29

FSqrt(x) ==
    IF x.m = <<>> THEN FZero
    ELSE LET odd == x.e % 2 # 0
             n   == BShl(x.m, 2 * SqrtGuard + (IF odd THEN 1 ELSE 0))
             e2  == (IF odd THEN x.e - 1 ELSE x.e) \div 2
             r   == BSqrtBits(n, (BBitLen(n) + 1) \div 2, <<>>)
             r2  == BAdd(BShl(r, 1), IF BMul(r, r) = n THEN <<>> ELSE <<1>>)
         IN  FRound(FALSE, r2, e2 - SqrtGuard - 1)

\* x divided by a small divisor d (0 < d <= LimbBase): quotient and remainder.
RECURSIVE BDivStep(_, _, _, _)
BDivStep(x, d, i, rem) ==
    IF i = 0 THEN [q |-> <<>>, r |-> rem]
    ELSE LET cur  == rem * LimbBase + x[i]
             rest == BDivStep(x, d, i - 1, cur % d)
         IN  [q |-> rest.q \o <<cur \div d>>, r |-> rest.r]

BDivSmall(x, d) ==
    LET res == BDivStep(x, d, Len(x), 0) IN [q |-> BTrim(res.q), r |-> res.r]

\* The f64 that the decimal literal num/den denotes (den a power of ten,
\* at most 1000): the f64 nearest to the quotient.  The quotient is taken
\* with 64 extra bits, and one more bit records a non-zero remainder.
LitBits == 64

FDecimal(neg, num, den) ==
    LET dv  == BDivSmall(BShl(BFromInt(num), LitBits), den)
        q2  == BAdd(BShl(dv.q, 1), IF dv.r = 0 THEN <<>> ELSE <<1>>)
    IN  FRound(neg, q2, -(LitBits + 1))


\* ------------------------------------------------------------------------
\* lib.rs: participants and pairings.  An identity is an opaque token; the
\* model uses the numbers 1, 2, ... for them.
\* ------------------------------------------------------------------------

MinAnswer == 1

MaxAnswer == 7

\* User::new with the upper half of its range test left out.
UserNewNoUpperTest(id, responses) ==
    IF \E k \in 1..Len(responses) : responses[k] < MinAnswer
    THEN [ok |-> FALSE, err |-> "All responses must be between 1 and 7"]
    ELSE [ok |-> TRUE, user |-> [id |-> id, responses |-> responses]]

\* User::new: Ok(User) or Err(message).
UserNew(id, responses) ==
    IF \E k \in 1..Len(responses) :
           responses[k] < MinAnswer \/ responses[k] > MaxAnswer
    THEN [ok |-> FALSE, err |-> "All responses must be between 1 and 7"]
    ELSE [ok |-> TRUE, user |-> [id |-> id, responses |-> responses]]

\* Match::new with the two identities stored the other way round.
MatchNewSwapped(user1_id, user2_id, score) ==
    [user1_id |-> user2_id, user2_id |-> user1_id, score |-> score]

\* Match::new
MatchNew(user1_id, user2_id, score) ==
    [user1_id |-> user1_id, user2_id |-> user2_id, score |-> score]

\* ------------------------------------------------------------------------
\* The participants that are scored: every pair of response vectors of at
\* most MaxQ valid answers, and pairs of the test-suite.
\* ------------------------------------------------------------------------

\* Every response vector of exactly n answers, each drawn from `answers`.
Vectors(answers, n) == [1..n -> answers]

VectorsUpTo(answers, n) == UNION {Vectors(answers, k) : k \in 0..n}

MaxQ == 1

Answers == MinAnswer..MaxAnswer

\* Response vectors of the test-suite (scoring.rs, mod tests).
TestPairs ==
    { << <<2, 4, 6>>, <<5, 1, 7>> >>,
      << <<1, 2, 3>>, <<1, 2>> >>,
      << <<1, 4, 7>>, <<7, 2, 1>> >>,
      << <<1, 2>>, <<3, 4>> >>,
      << <<1, 1, 1>>, <<7, 7, 7>> >>,
      << <<1, 3, 5>>, <<4, 6, 2>> >>,
      << <<1, 2, 3, 4, 5>>, <<1, 2, 3, 4, 5>> >>,
      << <<1, 1, 1, 1, 1>>, <<7, 7, 7, 7, 7>> >>,
      << <<1, 7, 3, 5>>, <<7, 1, 5, 4>> >> }

\* The survey the strategies are documented for: "25 questions".
SurveyQuestions == 25

\* Participants who give one and the same answer to every question of the
\* survey: the lowest, the neutral or the highest answer.
SurveyPairs ==
    { << [k \in 1..SurveyQuestions |-> a], [k \in 1..SurveyQuestions |-> b] >> :
          a \in {MinAnswer, 4, MaxAnswer}, b \in {MinAnswer, 4, MaxAnswer} }

ResponsePairs ==
    (VectorsUpTo(Answers, MaxQ) \X VectorsUpTo(Answers, MaxQ))
    \cup TestPairs \cup SurveyPairs

\* ------------------------------------------------------------------------
\* scoring.rs: the four strategies.  calculate_score returns a score or
\* panics (assert_eq!); a panic carries the assertion's message.
\* ------------------------------------------------------------------------

Score(f) == [panic |-> FALSE, score |-> f]

Panic(msg) == [panic |-> TRUE, msg |-> msg]

LenMessage == "Users must have same number of responses"

WeightMessage == "Number of responses must match number of weights"

AbsI(n) == IF n < 0 THEN -n ELSE n

\* iter().zip(): as many items as the shorter side has.
ZipLen(r1, r2) == MinOf(Len(r1), Len(r2))

\* The sum with `r1 - r2` for `(r1 - r2).abs()`.
RECURSIVE SumSignedDiff(_, _, _)
SumSignedDiff(r1, r2, k) ==
    IF k > ZipLen(r1, r2) THEN 0
    ELSE (r1[k] - r2[k]) + SumSignedDiff(r1, r2, k + 1)

\* .map(|(r1, r2)| (r1 - r2).abs()).sum::<i32>()
RECURSIVE SumAbsDiff(_, _, _)
SumAbsDiff(r1, r2, k) ==
    IF k > ZipLen(r1, r2) THEN 0
    ELSE AbsI(r1[k] - r2[k]) + SumAbsDiff(r1, r2, k + 1)

SimpleDifference_calculate_score(user1, user2) ==
    IF Len(user1.responses) # Len(user2.responses) THEN Panic(LenMessage)
    ELSE Score(FFromInt(SumAbsDiff(user1.responses, user2.responses, 1)))

\* .map(|(r1, r2)| { let diff = r1 - r2; diff * diff }).sum()
RECURSIVE SumOfSquares(_, _, _)
SumOfSquares(r1, r2, k) ==
    IF k > ZipLen(r1, r2) THEN 0
    ELSE (r1[k] - r2[k]) * (r1[k] - r2[k]) + SumOfSquares(r1, r2, k + 1)

\* (sum_of_squares as f64).sqrt(), tabulated once for the sums that the
\* scored participants give.
SqrtTable ==
    [n \in {SumOfSquares(rp[1], rp[2], 1) : rp \in ResponsePairs} |-> FSqrt(FFromInt(n))]

\* The score without its square root.
NoSquareRoot(n) == FFromInt(n)

SquareRoot(n) == SqrtTable[n]

Euclidean_calculate_score(user1, user2) ==
    IF Len(user1.responses) # Len(user2.responses) THEN Panic(LenMessage)
    ELSE Score(SquareRoot(SumOfSquares(user1.responses, user2.responses, 1)))

\* WeightedScorer::new with `w < 0.0` for `w <= 0.0`.
WeightedNewZeroAllowed(weights) ==
    IF weights = <<>> THEN [ok |-> FALSE, err |-> "Weights vector cannot be empty"]
    ELSE IF \E k \in 1..Len(weights) : weights[k].neg
    THEN [ok |-> FALSE, err |-> "All weights must be positive"]
    ELSE [ok |-> TRUE, scorer |-> [kind |-> "Weighted", weights |-> weights]]

\* WeightedScorer::new: Ok(scorer) or Err(message).  A weight is <= 0.0
\* when it is zero or negative.
WeightedNew(weights) ==
    IF weights = <<>> THEN [ok |-> FALSE, err |-> "Weights vector cannot be empty"]
    ELSE IF \E k \in 1..Len(weights) : weights[k].m = <<>> \/ weights[k].neg
    THEN [ok |-> FALSE, err |-> "All weights must be positive"]
    ELSE [ok |-> TRUE, scorer |-> [kind |-> "Weighted", weights |-> weights]]

\* WeightedScorer::equal_weights: vec![1.0; num_questions]
equal_weights(num_questions) ==
    [kind |-> "Weighted", weights |-> [k \in 1..num_questions |-> FFromInt(1)]]

\* The weighted sum with `r1 - r2` for `(r1 - r2).abs()`.
RECURSIVE SumWeightedSigned(_, _, _, _, _)
SumWeightedSigned(r1, r2, weights, k, acc) ==
    IF k > MinOf(ZipLen(r1, r2), Len(weights)) THEN acc
    ELSE SumWeightedSigned(r1, r2, weights, k + 1,
                           FAdd(acc, FMul(FFromInt(r1[k] - r2[k]), weights[k])))

\* The weighted sum with `diff + weight` for `diff * weight`.
RECURSIVE SumWeightedPlus(_, _, _, _, _)
SumWeightedPlus(r1, r2, weights, k, acc) ==
    IF k > MinOf(ZipLen(r1, r2), Len(weights)) THEN acc
    ELSE SumWeightedPlus(r1, r2, weights, k + 1,
                         FAdd(acc, FAdd(FFromInt(AbsI(r1[k] - r2[k])), weights[k])))

\* .zip(&self.weights).map(|((r1, r2), weight)| diff * weight).sum()
RECURSIVE SumWeighted(_, _, _, _, _)
SumWeighted(r1, r2, weights, k, acc) ==
    IF k > MinOf(ZipLen(r1, r2), Len(weights)) THEN acc
    ELSE SumWeighted(r1, r2, weights, k + 1,
                     FAdd(acc, FMul(FFromInt(AbsI(r1[k] - r2[k])), weights[k])))

\* WeightedScorer::calculate_score with its second assert_eq! left out: the
\* zip then stops at the shorter of responses and weights.
WeightedScoreNoWeightAssert(self, user1, user2) ==
    IF Len(user1.responses) # Len(user2.responses) THEN Panic(LenMessage)
    ELSE Score(SumWeighted(user1.responses, user2.responses, self.weights, 1, FZero))

Weighted_calculate_score(self, user1, user2) ==
    IF Len(user1.responses) # Len(user2.responses) THEN Panic(LenMessage)
    ELSE IF Len(user1.responses) # Len(self.weights) THEN Panic(WeightMessage)
    ELSE Score(SumWeighted(user1.responses, user2.responses, self.weights, 1, FZero))

\* PolarizationScorer::new: any three f64 multipliers.
PolarizationNew(extreme_multiplier, lean_multiplier, moderate_multiplier) ==
    [kind |-> "Polarization",
     extreme_multiplier  |-> extreme_multiplier,
     lean_multiplier     |-> lean_multiplier,
     moderate_multiplier |-> moderate_multiplier]

\* PolarizationScorer::default: 1.5, 1.2, 1.0
PolarizationDefault ==
    PolarizationNew(FDecimal(FALSE, 15, 10), FDecimal(FALSE, 12, 10), FDecimal(FALSE, 10, 10))

polarization_weight(self, answer) ==
    IF answer = 1 \/ answer = 7 THEN self.extreme_multiplier
    ELSE IF answer = 2 \/ answer = 6 THEN self.lean_multiplier
    ELSE IF answer >= 3 /\ answer <= 5 THEN self.moderate_multiplier
    ELSE FFromInt(1)

\* The term with the second participant's multiplier left out.
PolarizationTermOneWeight(self, r1, r2) ==
    FMul(FFromInt(AbsI(r1 - r2)), polarization_weight(self, r1))

\* diff * weight1 * weight2: two roundings, left to right.
PolarizationTerm(self, r1, r2) ==
    FMul(FMul(FFromInt(AbsI(r1 - r2)), polarization_weight(self, r1)),
         polarization_weight(self, r2))

RECURSIVE SumPolarized(_, _, _, _, _)
SumPolarized(self, r1, r2, k, acc) ==
    IF k > ZipLen(r1, r2) THEN acc
    ELSE SumPolarized(self, r1, r2, k + 1,
                      FAdd(acc, PolarizationTerm(self, r1[k], r2[k])))

Polarization_calculate_score(self, user1, user2) ==
    IF Len(user1.responses) # Len(user2.responses) THEN Panic(LenMessage)
    ELSE Score(SumPolarized(self, user1.responses, user2.responses, 1, FZero))

SimpleDifferenceScorer == [kind |-> "SimpleDifference"]

EuclideanDistanceScorer == [kind |-> "EuclideanDistance"]

\* ScoringStrategy::calculate_score, dispatched on the strategy bound.
calculate_score(self, user1, user2) ==
    CASE self.kind = "SimpleDifference"  -> SimpleDifference_calculate_score(user1, user2)
      [] self.kind = "EuclideanDistance" -> Euclidean_calculate_score(user1, user2)
      [] self.kind = "Weighted"          -> Weighted_calculate_score(self, user1, user2)
      [] self.kind = "Polarization"      -> Polarization_calculate_score(self, user1, user2)


\* ------------------------------------------------------------------------
\* State.
\*   users       the participant slice handed to the operation
\*   scorer      the strategy bound to the matcher
\*   pc          where the operation in progress stands
\*   candidates  the list calculate_all_pairs handed back
\*   pairs       find_matches' local `pairs` (sorted in place)
\*   cursor      position of greedy_select's loop in pairs
\*   matched     greedy_select's HashSet of matched identities
\*   matches     greedy_select's Vec<Match>
\*   outcome     how find_matches ended: "none", "returned" or "panicked"
\*   hasher      the RandomState of the HashSet of the run in progress
\*   earlier     the earlier runs on the same input: hasher and list returned
\*   result      what the last constructor or calculate_score calls gave
\* ------------------------------------------------------------------------

VARIABLES users, scorer, pc, candidates, pairs, cursor, matched, matches,
          outcome, hasher, earlier, result

vars == <<users, scorer, pc, candidates, pairs, cursor, matched, matches,
          outcome, hasher, earlier, result>>

NoResult == [none |-> TRUE]

\* ------------------------------------------------------------------------
\* Participant construction (UserSpec): calls of User::new on vectors whose
\* entries reach Slack below and above the valid range.
\* ------------------------------------------------------------------------

Slack == 1

MaxResponses == 2

MaxIds == 2

RawAnswers == (MinAnswer - Slack)..(MaxAnswer + Slack)

UserInit ==
    /\ users = <<>>
    /\ scorer = SimpleDifferenceScorer
    /\ pc = "construct"
    /\ candidates = <<>>
    /\ pairs = <<>>
    /\ cursor = 0
    /\ matched = {}
    /\ matches = <<>>
    /\ outcome = "none"
    /\ hasher = 0
    /\ earlier = <<>>
    /\ result = NoResult

\* let user = User::new(id, responses);
UserNewCall ==
    /\ pc = "construct"
    /\ \E id \in 1..MaxIds, responses \in VectorsUpTo(RawAnswers, MaxResponses) :
           result' = [id |-> id, responses |-> responses,
                      returned |-> UserNew(id, responses)]
    /\ UNCHANGED <<users, scorer, pc, candidates, pairs, cursor, matched,
                   matches, outcome, hasher, earlier>>

UserNext == UserNewCall

UserSpec == UserInit /\ [][UserNext]_vars

\* ------------------------------------------------------------------------
\* Scoring (ScoreSpec): two valid participants and a strategy; the score
\* of (a, b) is computed, then the score of (b, a).
\* ------------------------------------------------------------------------

\* Weight vectors of the test-suite and a vector of one weight; equal
\* weights for every length scored; the default multipliers, those of the
\* documentation, and two more choices, one with a negative multiplier
\* (PolarizationScorer::new takes any f64).
WeightVectors ==
    { << FFromInt(2), FFromInt(1), FFromInt(3) >>,
      << FFromInt(10), FFromInt(1) >>,
      << FDecimal(FALSE, 25, 10) >> }

Scorers ==
    {SimpleDifferenceScorer, EuclideanDistanceScorer}
    \cup {WeightedNew(w).scorer : w \in WeightVectors}
    \cup {equal_weights(n) : n \in (0..MaxQ)
                               \cup {Len(rp[1]) : rp \in TestPairs \cup SurveyPairs}}
    \cup { PolarizationDefault,
           PolarizationNew(FFromInt(2), FDecimal(FALSE, 15, 10), FFromInt(1)),
           PolarizationNew(FDecimal(FALSE, 11, 10), FDecimal(FALSE, 13, 10),
                           FDecimal(FALSE, 17, 10)),
           PolarizationNew(FFromInt(-1), FDecimal(FALSE, 12, 10), FFromInt(1)) }

ScoreInit ==
    /\ \E rp \in ResponsePairs :
           users = << UserNew(1, rp[1]).user, UserNew(2, rp[2]).user >>
    /\ scorer \in Scorers
    /\ pc = "score"
    /\ candidates = <<>>
    /\ pairs = <<>>
    /\ cursor = 0
    /\ matched = {}
    /\ matches = <<>>
    /\ outcome = "none"
    /\ hasher = 0
    /\ earlier = <<>>
    /\ result = [ab |-> NoResult, ba |-> NoResult]

\* let score1 = scorer.calculate_score(&user1, &user2);
\* let score2 = scorer.calculate_score(&user2, &user1);
ScoreBoth(ab, ba) ==
    /\ pc = "score"
    /\ result.ba = NoResult
    /\ result' = IF result.ab = NoResult
                 THEN [result EXCEPT !.ab = ab]
                 ELSE [result EXCEPT !.ba = ba]
    /\ UNCHANGED <<users, scorer, pc, candidates, pairs, cursor, matched,
                   matches, outcome, hasher, earlier>>

SimpleDifferenceCall ==
    /\ scorer.kind = "SimpleDifference"
    /\ ScoreBoth(SimpleDifference_calculate_score(users[1], users[2]),
                 SimpleDifference_calculate_score(users[2], users[1]))

EuclideanCall ==
    /\ scorer.kind = "EuclideanDistance"
    /\ ScoreBoth(Euclidean_calculate_score(users[1], users[2]),
                 Euclidean_calculate_score(users[2], users[1]))

WeightedCall ==
    /\ scorer.kind = "Weighted"
    /\ ScoreBoth(Weighted_calculate_score(scorer, users[1], users[2]),
                 Weighted_calculate_score(scorer, users[2], users[1]))

PolarizationCall ==
    /\ scorer.kind = "Polarization"
    /\ ScoreBoth(Polarization_calculate_score(scorer, users[1], users[2]),
                 Polarization_calculate_score(scorer, users[2], users[1]))

ScoreNext == SimpleDifferenceCall \/ EuclideanCall \/ WeightedCall \/ PolarizationCall

ScoreSpec == ScoreInit /\ [][ScoreNext]_vars


\* ------------------------------------------------------------------------
\* Weighted strategy construction (WeightSpec): calls of
\* WeightedScorer::new on vectors of at most MaxWeights weights, negative,
\* zero and positive.
\* ------------------------------------------------------------------------

MaxWeights == 3

\* -2.0, 0.0, 0.5, 1.0, 1.5: weights of the test-suite.
RawWeights ==
    { FFromInt(-2), FZero, FDecimal(FALSE, 5, 10), FFromInt(1), FDecimal(FALSE, 15, 10) }

WeightInit ==
    /\ users = <<>>
    /\ scorer = SimpleDifferenceScorer
    /\ pc = "weights"
    /\ candidates = <<>>
    /\ pairs = <<>>
    /\ cursor = 0
    /\ matched = {}
    /\ matches = <<>>
    /\ outcome = "none"
    /\ hasher = 0
    /\ earlier = <<>>
    /\ result = NoResult

\* let scorer = WeightedScorer::new(weights);
WeightedNewCall ==
    /\ pc = "weights"
    /\ \E weights \in VectorsUpTo(RawWeights, MaxWeights) :
           result' = [weights |-> weights, returned |-> WeightedNew(weights)]
    /\ UNCHANGED <<users, scorer, pc, candidates, pairs, cursor, matched,
                   matches, outcome, hasher, earlier>>

WeightNext == WeightedNewCall

WeightSpec == WeightInit /\ [][WeightNext]_vars

\* ------------------------------------------------------------------------
\* Both public constructors of the weighted strategy (ConstructSpec):
\* WeightedScorer::new, which returns a Result, and
\* WeightedScorer::equal_weights, which returns the strategy itself, for
\* every number of questions up to MaxWeights, none included (usize).
\* ------------------------------------------------------------------------

\* let scorer = WeightedScorer::equal_weights(num_questions);
EqualWeightsCall ==
    /\ pc = "weights"
    /\ \E num_questions \in 0..MaxWeights :
           result' = [num_questions |-> num_questions,
                      scorer |-> equal_weights(num_questions)]
    /\ UNCHANGED <<users, scorer, pc, candidates, pairs, cursor, matched,
                   matches, outcome, hasher, earlier>>

ConstructNext == WeightedNewCall \/ EqualWeightsCall

ConstructSpec == WeightInit /\ [][ConstructNext]_vars


\* ------------------------------------------------------------------------
\* matching.rs: GreedyMatcher.  A candidate is (i, j, score) with i and j
\* 0-based indexes into the slice; users[i] of the code is users[i + 1]
\* here.
\* ------------------------------------------------------------------------

Candidate(i, j, score) == [i |-> i, j |-> j, score |-> score]

\* The guard of find_matches written `users.len() < 1`.
TooFewOffByOne(us) == Len(us) < 1

\* if users.len() < 2 { return Vec::new(); }
TooFew(us) == Len(us) < 2

\* calculate_all_pairs: its body is todo!("Calculate all pairs - you got
\* this!"), which panics whenever it is reached.
calculate_all_pairs(self, us) ==
    Panic("not yet implemented: Calculate all pairs - you got this!")

\* pairs.sort_by(|a, b| b.2.partial_cmp(&a.2).unwrap_or(Equal)): a stable
\* sort, so of two candidates neither of which has the greater score the
\* one that came first stays first.
RECURSIVE InsertByScore(_, _)
InsertByScore(sorted, c) ==
    IF sorted = <<>> THEN <<c>>
    ELSE IF FLess(Head(sorted).score, c.score) THEN <<c>> \o sorted
    ELSE <<Head(sorted)>> \o InsertByScore(Tail(sorted), c)

RECURSIVE SortFrom(_, _, _)
SortFrom(ps, k, sorted) ==
    IF k > Len(ps) THEN sorted
    ELSE SortFrom(ps, k + 1, InsertByScore(sorted, ps[k]))

\* The sort with its comparator the other way round (a.2 against b.2).
RECURSIVE InsertAscending(_, _)
InsertAscending(sorted, c) ==
    IF sorted = <<>> THEN <<c>>
    ELSE IF FLess(c.score, Head(sorted).score) THEN <<c>> \o sorted
    ELSE <<Head(sorted)>> \o InsertAscending(Tail(sorted), c)

RECURSIVE SortAscendingFrom(_, _, _)
SortAscendingFrom(ps, k, sorted) ==
    IF k > Len(ps) THEN sorted
    ELSE SortAscendingFrom(ps, k + 1, InsertAscending(sorted, ps[k]))

SortAscending(ps) == SortAscendingFrom(ps, 1, <<>>)

\* find_matches without its sort: the candidates stay in enumeration order.
SortLeftOut(ps) == ps

\* A sort that is descending but whose order among equal scores follows the
\* RandomState of the run.
ReverseSeq(ps) == [k \in 1..Len(ps) |-> ps[Len(ps) + 1 - k]]

SortTiesByHasher(ps) ==
    IF hasher = 0 THEN SortFrom(ps, 1, <<>>) ELSE SortFrom(ReverseSeq(ps), 1, <<>>)

sort_by_score(ps) == SortFrom(ps, 1, <<>>)

\* The test of greedy_select with its second conjunct left out.
FirstUnmatched(us, done, c) == us[c.i + 1].id \notin done

\* The test of the second participant alone.
SecondUnmatched(us, done, c) == us[c.j + 1].id \notin done

\* !matched.contains(user_i_id) && !matched.contains(user_j_id)
BothUnmatched(us, done, c) ==
    us[c.i + 1].id \notin done /\ us[c.j + 1].id \notin done

\* The loop body without `matched.insert(user_j_id.clone())`.
GreedyStepForgetsSecond(us, st, c) ==
    IF BothUnmatched(us, st.matched, c)
    THEN [matched |-> st.matched \cup {us[c.i + 1].id},
          matches |-> Append(st.matches,
                             MatchNew(us[c.i + 1].id, us[c.j + 1].id, c.score))]
    ELSE st

\* The body of greedy_select's loop for one candidate.
GreedyStep(us, st, c) ==
    IF BothUnmatched(us, st.matched, c)
    THEN [matched |-> st.matched \cup {us[c.i + 1].id, us[c.j + 1].id},
          matches |-> Append(st.matches,
                             MatchNew(us[c.i + 1].id, us[c.j + 1].id, c.score))]
    ELSE st

RECURSIVE GreedyWalk(_, _, _, _)
GreedyWalk(us, ps, k, st) ==
    IF k > Len(ps) THEN st.matches
    ELSE GreedyWalk(us, ps, k + 1, GreedyStep(us, st, ps[k]))

greedy_select(us, ps) == GreedyWalk(us, ps, 1, [matched |-> {}, matches |-> <<>>])

\* GreedyMatcher::find_matches: the list of pairings, or the panic that
\* ended the call.
find_matches(self, us) ==
    IF TooFew(us) THEN [panic |-> FALSE, matches |-> <<>>]
    ELSE LET all == calculate_all_pairs(self, us)
         IN  IF all.panic THEN all
             ELSE [panic |-> FALSE,
                   matches |-> greedy_select(us, sort_by_score(all.pairs))]

\* ------------------------------------------------------------------------
\* The matcher's entry point (Spec): a caller hands a participant list and
\* a bound strategy to find_matches.
\* ------------------------------------------------------------------------

MaxUsers == 4

\* Identities of a list of n participants: pairwise distinct, or the last
\* participant carrying the identity of the first.
IdLists(n) ==
    {[k \in 1..n |-> k]}
    \cup (IF n >= 2 THEN {[k \in 1..n |-> IF k = n THEN 1 ELSE k]} ELSE {})

Surveys == { <<MinAnswer>>, <<MaxAnswer>>, <<MinAnswer, MaxAnswer>> }

UserLists(n) ==
    { [k \in 1..n |-> UserNew(ids[k], rs[k]).user] :
        ids \in IdLists(n), rs \in [1..n -> Surveys] }

DistinctIds(us) == \A k, l \in 1..Len(us) : us[k].id = us[l].id => k = l

EqualLengths(us) ==
    \A k, l \in 1..Len(us) : Len(us[k].responses) = Len(us[l].responses)

Init ==
    /\ users \in UNION {UserLists(n) : n \in 0..MaxUsers}
    /\ scorer \in Scorers
    /\ pc = "call"
    /\ candidates = <<>>
    /\ pairs = <<>>
    /\ cursor = 0
    /\ matched = {}
    /\ matches = <<>>
    /\ outcome = "none"
    /\ hasher = 0
    /\ earlier = <<>>
    /\ result = NoResult

\* let matches = matcher.find_matches(&users);
FindMatches ==
    /\ pc = "call"
    /\ LET r == find_matches(scorer, users)
       IN  /\ outcome' = IF r.panic THEN "panicked" ELSE "returned"
           /\ matches' = IF r.panic THEN <<>> ELSE r.matches
           /\ result' = r
    /\ pc' = "done"
    /\ UNCHANGED <<users, scorer, candidates, pairs, cursor, matched, hasher, earlier>>

Next == FindMatches

Spec == Init /\ [][Next]_vars


\* ------------------------------------------------------------------------
\* Sorting and greedy selection (SelectSpec): find_matches from its sort
\* on, applied to candidate lists of the shape calculate_all_pairs is
\* documented to hand back: the index pairs (i, j), i < j, in the order of
\* the nested loops, each with a score.  The lists are cut at MaxPairs
\* candidates and the scores are the whole numbers 0..MaxScore.  A run
\* that has returned may be repeated on the same input, with a HashSet
\* hashed under another RandomState.
\* ------------------------------------------------------------------------

MaxPairs == 6

MaxScore == 1

MaxRuns == 2

Hashers == {0, 1}

\* for i in 0..users.len() { for j in (i+1)..users.len() { .. (i, j) .. } }
RECURSIVE IndexPairsFrom(_, _, _)
IndexPairsFrom(n, i, j) ==
    IF i >= n - 1 THEN <<>>
    ELSE IF j >= n THEN IndexPairsFrom(n, i + 1, i + 2)
    ELSE << <<i, j>> >> \o IndexPairsFrom(n, i, j + 1)

IndexPairs(n) ==
    LET all == IndexPairsFrom(n, 0, 1)
    IN  SubSeq(all, 1, MinOf(Len(all), MaxPairs))

ScoreLevels == {FFromInt(k) : k \in 0..MaxScore}

CandidateLists(n) ==
    LET ip == IndexPairs(n)
    IN  { [k \in 1..Len(ip) |-> Candidate(ip[k][1], ip[k][2], sc[k])] :
            sc \in [1..Len(ip) -> ScoreLevels] }

PlainUsers(n) ==
    { [k \in 1..n |-> UserNew(ids[k], <<MinAnswer>>).user] : ids \in IdLists(n) }

SelectInit ==
    /\ \E n \in 2..MaxUsers :
           /\ users \in PlainUsers(n)
           /\ candidates \in CandidateLists(n)
    /\ scorer = SimpleDifferenceScorer
    /\ pc = "sort"
    /\ pairs = candidates
    /\ cursor = 0
    /\ matched = {}
    /\ matches = <<>>
    /\ outcome = "none"
    /\ hasher \in Hashers
    /\ earlier = <<>>
    /\ result = NoResult

\* pairs.sort_by(..), then greedy_select's two `let mut`.
SortPairs ==
    /\ pc = "sort"
    /\ pairs' = sort_by_score(pairs)
    /\ cursor' = 1
    /\ matched' = {}
    /\ matches' = <<>>
    /\ pc' = "select"
    /\ UNCHANGED <<users, scorer, candidates, outcome, hasher, earlier, result>>

\* One turn of `for (i, j, score) in pairs` whose `if` holds.
SelectCommit ==
    /\ pc = "select"
    /\ cursor <= Len(pairs)
    /\ BothUnmatched(users, matched, pairs[cursor])
    /\ LET st == GreedyStep(users, [matched |-> matched, matches |-> matches],
                            pairs[cursor])
       IN  matched' = st.matched /\ matches' = st.matches
    /\ cursor' = cursor + 1
    /\ UNCHANGED <<users, scorer, pc, candidates, pairs, outcome, hasher,
                   earlier, result>>

\* One turn whose `if` fails.
SelectSkip ==
    /\ pc = "select"
    /\ cursor <= Len(pairs)
    /\ ~BothUnmatched(users, matched, pairs[cursor])
    /\ LET st == GreedyStep(users, [matched |-> matched, matches |-> matches],
                            pairs[cursor])
       IN  matched' = st.matched /\ matches' = st.matches
    /\ cursor' = cursor + 1
    /\ UNCHANGED <<users, scorer, pc, candidates, pairs, outcome, hasher,
                   earlier, result>>

\* The loop is over: `matches` is returned.
SelectReturn ==
    /\ pc = "select"
    /\ cursor > Len(pairs)
    /\ pc' = "done"
    /\ outcome' = "returned"
    /\ UNCHANGED <<users, scorer, candidates, pairs, cursor, matched, matches,
                   hasher, earlier, result>>

\* The caller runs the same input again.
Rerun ==
    /\ pc = "done"
    /\ Len(earlier) + 1 < MaxRuns
    /\ earlier' = Append(earlier, [hasher |-> hasher, matches |-> matches])
    /\ hasher' \in Hashers
    /\ pairs' = candidates
    /\ cursor' = 0
    /\ matched' = {}
    /\ matches' = <<>>
    /\ outcome' = "none"
    /\ pc' = "sort"
    /\ UNCHANGED <<users, scorer, candidates, result>>

SelectNext == SortPairs \/ SelectCommit \/ SelectSkip \/ SelectReturn \/ Rerun

SelectSpec == SelectInit /\ [][SelectNext]_vars


\* ------------------------------------------------------------------------
\* Sorting and greedy selection on scored candidates (PairSpec):
\* find_matches from its sort on, applied to the list that
\* calculate_all_pairs is documented to build (its body is todo!()): every
\* (i, j), i < j, in the order of the nested loops, with the score the bound
\* strategy computes for users[i] and users[j].
\* ------------------------------------------------------------------------

\* The documented result of calculate_all_pairs: the candidates, or the
\* panic of the first pair the strategy cannot score.
documented_all_pairs(self, us) ==
    LET ip == IndexPairsFrom(Len(us), 0, 1)
        sc == [k \in 1..Len(ip) |-> calculate_score(self, us[ip[k][1] + 1], us[ip[k][2] + 1])]
    IN  IF \E k \in 1..Len(ip) : sc[k].panic
        THEN sc[CHOOSE k \in 1..Len(ip) :
                    sc[k].panic /\ \A l \in 1..(k - 1) : ~sc[l].panic]
        ELSE [panic |-> FALSE,
              pairs |-> [k \in 1..Len(ip) |-> Candidate(ip[k][1], ip[k][2], sc[k].score)]]

PairInit ==
    /\ users \in UNION {UserLists(n) : n \in 2..MaxUsers}
    /\ scorer \in Scorers
    /\ ~documented_all_pairs(scorer, users).panic
    /\ candidates = documented_all_pairs(scorer, users).pairs
    /\ pc = "sort"
    /\ pairs = candidates
    /\ cursor = 0
    /\ matched = {}
    /\ matches = <<>>
    /\ outcome = "none"
    /\ hasher = 0
    /\ earlier = <<>>
    /\ result = NoResult

PairNext == SortPairs \/ SelectCommit \/ SelectSkip \/ SelectReturn

PairSpec == PairInit /\ [][PairNext]_vars

\* ------------------------------------------------------------------------
\* Properties.
\* ------------------------------------------------------------------------

\* How many pairings of ms name the identity id.
Occurrences(ms, id) ==
    Cardinality({k \in 1..Len(ms) : ms[k].user1_id = id})
    + Cardinality({k \in 1..Len(ms) : ms[k].user2_id = id})

IdsOf(ms) ==
    {ms[k].user1_id : k \in 1..Len(ms)} \cup {ms[k].user2_id : k \in 1..Len(ms)}

\* C1: for N >= 2 participants with pairwise distinct identities and
\* equal-length responses, and any strategy, find_matches returns normally
\* with exactly floor(N/2) pairings; no identity is in two pairings, and the
\* identities in no pairing are none for even N and exactly one for odd N.
C1_FloorHalfPairings ==
    (pc = "done" /\ Len(users) >= 2 /\ DistinctIds(users) /\ EqualLengths(users))
    => /\ outcome = "returned"
       /\ Len(matches) = Len(users) \div 2
       /\ \A k \in 1..Len(users) : Occurrences(matches, users[k].id) <= 1
       /\ Cardinality({k \in 1..Len(users) : Occurrences(matches, users[k].id) = 0})
              = Len(users) % 2

\* C2: find_matches on 0 or 1 participants returns the empty list without
\* an error, whatever the strategy: also for a strategy that would panic if
\* it were evaluated.
C2_FewGiveEmpty ==
    (pc = "done" /\ Len(users) < 2)
    => /\ outcome = "returned"
       /\ result = [panic |-> FALSE, matches |-> <<>>]
       /\ matches = <<>>

C2_Witness ==
    /\ pc = "done"
    /\ Len(users) = 1
    /\ scorer.kind = "Weighted"
    /\ Len(scorer.weights) # Len(users[1].responses)
    /\ outcome = "returned"

\* C3: with pairwise distinct identities, after every step of the greedy
\* walk no identity is in two committed pairings, the matched set is the set
\* of identities in committed pairings, and there are at most floor(N/2)
\* pairings.
C3_Disjoint ==
    DistinctIds(users)
    => /\ \A k \in 1..Len(users) : Occurrences(matches, users[k].id) <= 1
       /\ matched = IdsOf(matches)
       /\ Len(matches) <= Len(users) \div 2

\* In the middle of a walk: two pairings committed, a candidate skipped.
C3_Witness ==
    /\ pc = "select"
    /\ DistinctIds(users)
    /\ cursor <= Len(pairs)
    /\ Len(matches) = 2
    /\ cursor - 1 > Len(matches)

C5_Descending ==
    \A k \in 1..(Len(matches) - 1) : ~FLess(matches[k].score, matches[k + 1].score)

\* Two pairings of different scores, the candidates not enumerated in
\* descending order.
C5_Witness ==
    /\ pc = "done"
    /\ Len(matches) >= 2
    /\ FLess(matches[2].score, matches[1].score)
    /\ \E k \in 1..(Len(candidates) - 1) :
           FLess(candidates[k].score, candidates[k + 1].score)

C7_Symmetric ==
    (/\ pc = "score"
     /\ result.ba # NoResult
     /\ Len(users[1].responses) = Len(users[2].responses)
     /\ ~result.ab.panic
     /\ ~result.ba.panic)
    => result.ab.score = result.ba.score

\* C8: find_matches on at least 2 participants two of whom differ in the
\* length of their responses ends in a panic and hands back no list; on
\* participants whose responses all have one length it never fails.
C8_FailsOnlyOnMismatch ==
    pc = "done"
    => /\ (Len(users) >= 2 /\ ~EqualLengths(users))
          => (outcome = "panicked" /\ "matches" \notin DOMAIN result)
       /\ EqualLengths(users) => outcome = "returned"

\* C9: calculate_score of each strategy on responses of two lengths panics
\* and gives no score; the weighted strategy also panics when the responses
\* have one length and the weights another.
C9_MismatchPanics ==
    pc = "score"
    => \A d \in {"ab", "ba"} :
          result[d] # NoResult
          => /\ Len(users[1].responses) # Len(users[2].responses)
                => (result[d].panic /\ "score" \notin DOMAIN result[d])
             /\ (/\ scorer.kind = "Weighted"
                 /\ Len(users[1].responses) = Len(users[2].responses)
                 /\ Len(users[1].responses) # Len(scorer.weights))
                => (result[d].panic /\ "score" \notin DOMAIN result[d])

\* The weighted strategy, responses of one length, weights of another.
C9_Witness ==
    /\ pc = "score"
    /\ scorer.kind = "Weighted"
    /\ Len(users[1].responses) = Len(users[2].responses)
    /\ Len(users[1].responses) > 0
    /\ Len(scorer.weights) > 0
    /\ Len(users[1].responses) # Len(scorer.weights)
    /\ result.ba # NoResult
    /\ result.ab.panic

\* C10: User::new gives an error, and no User, exactly when some response
\* is below 1 or above 7; when it gives a User, the User holds the id and
\* the responses it was given, in their order.
C10_RangeValidated ==
    (pc = "construct" /\ result # NoResult)
    => /\ result.returned.ok
          <=> \A k \in 1..Len(result.responses) :
                  result.responses[k] >= 1 /\ result.responses[k] <= 7
       /\ ~result.returned.ok => "user" \notin DOMAIN result.returned
       /\ result.returned.ok
          => result.returned.user = [id |-> result.id, responses |-> result.responses]

\* Both boundary answers accepted in one vector.
C10_Witness ==
    /\ pc = "construct"
    /\ result # NoResult
    /\ result.responses = <<1, 7>>
    /\ result.returned.ok

\* C11: WeightedScorer::new gives the error "Weights vector cannot be empty"
\* for no weights and "All weights must be positive" when some weight is not
\* greater than 0, with no scorer either time; for weights that are all
\* greater than 0 it gives a scorer holding them unchanged.
C11_WeightsValidated ==
    (pc = "weights" /\ result # NoResult)
    => LET w == result.weights
       IN  /\ w = <<>>
              => result.returned = [ok |-> FALSE, err |-> "Weights vector cannot be empty"]
           /\ (w # <<>> /\ \E k \in 1..Len(w) : ~FLess(FZero, w[k]))
              => result.returned = [ok |-> FALSE, err |-> "All weights must be positive"]
           /\ (w # <<>> /\ \A k \in 1..Len(w) : FLess(FZero, w[k]))
              => result.returned = [ok |-> TRUE,
                                    scorer |-> [kind |-> "Weighted", weights |-> w]]

\* A zero among otherwise positive weights is refused.
C11_Witness ==
    /\ pc = "weights"
    /\ result # NoResult
    /\ Len(result.weights) = 3
    /\ result.weights[2] = FZero
    /\ FLess(FZero, result.weights[1])
    /\ FLess(FZero, result.weights[3])
    /\ ~result.returned.ok

\* C12: for two participants of N responses each, the weighted strategy
\* that equal_weights(N) builds gives the score the absolute-difference
\* strategy gives.
C12_EqualWeightsIsSimple ==
    (/\ pc = "score"
     /\ Len(users[1].responses) = Len(users[2].responses)
     /\ scorer = equal_weights(Len(users[1].responses)))
    => /\ result.ab # NoResult
          => result.ab = SimpleDifference_calculate_score(users[1], users[2])
       /\ result.ba # NoResult
          => result.ba = SimpleDifference_calculate_score(users[2], users[1])

\* The pair of test_weighted_vs_simple_difference: 3 + 3 + 3.
C12_Witness ==
    /\ pc = "score"
    /\ scorer = equal_weights(3)
    /\ users[1].responses = <<1, 3, 5>>
    /\ users[2].responses = <<4, 6, 2>>
    /\ result.ba = Score(FFromInt(9))

\* The sum over the questions of |a[k] - b[k]|, counted by layers: a
\* question with difference d lies in the layers 1..d.
Layer(a, b, d) ==
    Cardinality({k \in 1..Len(a) : a[k] - b[k] >= d \/ b[k] - a[k] >= d})

TotalDifference(a, b) ==
    Layer(a, b, 1) + Layer(a, b, 2) + Layer(a, b, 3)
    + Layer(a, b, 4) + Layer(a, b, 5) + Layer(a, b, 6)

\* C13: the absolute-difference score of two valid participants of N
\* responses each is the sum over the questions of |a[k] - b[k]|; it is at
\* least 0 and at most 6N, and it is 6N exactly when on every question one
\* of the two answered 1 and the other 7.
C13_SimpleRange ==
    (/\ pc = "score"
     /\ scorer.kind = "SimpleDifference"
     /\ Len(users[1].responses) = Len(users[2].responses)
     /\ result.ab # NoResult)
    => LET a == users[1].responses
           b == users[2].responses
           n == Len(a)
       IN  /\ result.ab = Score(FFromInt(TotalDifference(a, b)))
           /\ ~FLess(result.ab.score, FFromInt(0))
           /\ ~FLess(FFromInt(6 * n), result.ab.score)
           /\ result.ab.score = FFromInt(6 * n)
              <=> \A k \in 1..n : {a[k], b[k]} = {1, 7}

\* test_simple_difference_maximum_opposition: five questions, 30.
C13_Witness ==
    /\ pc = "score"
    /\ scorer.kind = "SimpleDifference"
    /\ users[1].responses = <<1, 1, 1, 1, 1>>
    /\ users[2].responses = <<7, 7, 7, 7, 7>>
    /\ result.ab = Score(FFromInt(30))

\* The conviction multiplier of one answer.
Conviction(self, answer) ==
    CASE answer \in {1, 7}  -> self.extreme_multiplier
      [] answer \in {2, 6}  -> self.lean_multiplier
      [] answer \in 3..5    -> self.moderate_multiplier

\* The sum over the first k questions of |a - b| * m(a) * m(b), in f64.
RECURSIVE ConvictionTotal(_, _, _, _)
ConvictionTotal(self, a, b, k) ==
    IF k = 0 THEN FZero
    ELSE FAdd(ConvictionTotal(self, a, b, k - 1),
              FMul(FMul(FFromInt(IF a[k] > b[k] THEN a[k] - b[k] ELSE b[k] - a[k]),
                        Conviction(self, a[k])),
                   Conviction(self, b[k])))

\* C14: the polarization score is the sum over the questions of
\* |a - b| * m(a) * m(b), m the multiplier of each answer by itself; with
\* the default multipliers [1] against [7] gives 13.5, [3] against [5] gives
\* 2.0 and [1] against [4] gives 4.5; with a moderate multiplier of 1.0 and
\* all answers in 3..5 the score is the absolute-difference score.
C14_PolarizationFormula ==
    (/\ pc = "score"
     /\ scorer.kind = "Polarization"
     /\ Len(users[1].responses) = Len(users[2].responses)
     /\ result.ab # NoResult)
    => LET a == users[1].responses
           b == users[2].responses
       IN  /\ result.ab = Score(ConvictionTotal(scorer, a, b, Len(a)))
           /\ scorer = PolarizationDefault
              => /\ (a = <<1>> /\ b = <<7>>) => result.ab.score = FDecimal(FALSE, 135, 10)
                 /\ (a = <<3>> /\ b = <<5>>) => result.ab.score = FFromInt(2)
                 /\ (a = <<1>> /\ b = <<4>>) => result.ab.score = FDecimal(FALSE, 45, 10)
           /\ (/\ scorer.moderate_multiplier = FFromInt(1)
               /\ \A k \in 1..Len(a) : a[k] \in 3..5 /\ b[k] \in 3..5)
              => result.ab = SimpleDifference_calculate_score(users[1], users[2])

\* test_polarization_extreme_vs_extreme: 6 * 1.5 * 1.5.
C14_Witness ==
    /\ pc = "score"
    /\ scorer = PolarizationDefault
    /\ users[1].responses = <<1>>
    /\ users[2].responses = <<7>>
    /\ result.ab = Score(FDecimal(FALSE, 135, 10))

\* C15 as stated: for two valid participants with the same responses, each
\* of the four strategies, whatever weights or multipliers it was built
\* with, returns exactly 0.
C15_IdenticalGiveZero ==
    (/\ pc = "score"
     /\ users[1].responses = users[2].responses
     /\ result.ab # NoResult)
    => result.ab = Score(FZero)

\* C15, amended: for two valid participants with the same responses, each
\* strategy returns exactly 0, the weighted one when it has as many weights
\* as there are responses; with another number of weights it panics.
C15_IdenticalGiveZeroInContract ==
    (/\ pc = "score"
     /\ users[1].responses = users[2].responses
     /\ result.ab # NoResult)
    => IF scorer.kind = "Weighted" /\ Len(scorer.weights) # Len(users[1].responses)
       THEN result.ab = Panic(WeightMessage)
       ELSE result.ab = Score(FZero)

\* A weighted strategy whose weights are not all 1.0, on identical vectors.
C15_Witness ==
    /\ pc = "score"
    /\ scorer.kind = "Weighted"
    /\ users[1].responses = users[2].responses
    /\ Len(users[1].responses) = 1
    /\ Len(scorer.weights) = 1
    /\ scorer.weights[1] # FFromInt(1)
    /\ result.ab = Score(FZero)

\* C16: for every strategy the public constructors can build
\* (PolarizationScorer::new with multipliers of the caller's choice among
\* them) and two valid participants with responses of one length, the score
\* that calculate_score returns is not below 0.
C16_NonNegative ==
    (/\ pc = "score"
     /\ Len(users[1].responses) = Len(users[2].responses)
     /\ result.ab # NoResult
     /\ ~result.ab.panic)
    => ~FLess(result.ab.score, FZero)

\* The sum over the questions of (a[k] - b[k])^2, counted by layers: d^2 is
\* the sum of the first d odd numbers.
TotalSquares(a, b) ==
    1 * Layer(a, b, 1) + 3 * Layer(a, b, 2) + 5 * Layer(a, b, 3)
    + 7 * Layer(a, b, 4) + 9 * Layer(a, b, 5) + 11 * Layer(a, b, 6)

\* Exact comparisons of a non-negative f64 x = m * 2^e (e <= 0) with the
\* square root of a whole number n, each side multiplied by 2^(1 - e) and
\* squared: x <= sqrt(n), x - ulp/2 <= sqrt(n), sqrt(n) <= x + ulp/2.
ScaledSquare(n, x) == BShl(BFromInt(n), 2 - 2 * x.e)

AtMostRoot(x, n) ==
    x.m = <<>> \/ BCmp(BMul(BShl(x.m, 1), BShl(x.m, 1)), ScaledSquare(n, x)) <= 0

HalfUlpBelowAtMostRoot(x, n) ==
    x.m = <<>>
    \/ LET lo == BSub(BShl(x.m, 1), <<1>>)
       IN  BCmp(BMul(lo, lo), ScaledSquare(n, x)) <= 0

HalfUlpAboveAtLeastRoot(x, n) ==
    IF x.m = <<>> THEN n = 0
    ELSE LET hi == BAdd(BShl(x.m, 1), <<1>>)
         IN  BCmp(ScaledSquare(n, x), BMul(hi, hi)) <= 0

\* What C17 says of the score x of a and b, but for its upper bound.
EuclideanShape(a, b, x) ==
    /\ ~x.neg
    /\ TotalSquares(a, b) >= 0
    /\ TotalSquares(a, b) <= 36 * Len(a)
    /\ HalfUlpBelowAtMostRoot(x, TotalSquares(a, b))
    /\ HalfUlpAboveAtLeastRoot(x, TotalSquares(a, b))
    /\ ~FLess(FFromInt(TotalDifference(a, b)), x)

C18_AllPairsOnce ==
    (/\ pc = "done"
     /\ Len(users) >= 2
     /\ \A i, j \in 1..Len(users) :
            i < j => ~calculate_score(scorer, users[i], users[j]).panic)
    => LET all == calculate_all_pairs(scorer, users)
           n   == Len(users)
       IN  /\ ~all.panic
           /\ Len(all.pairs) = (n * (n - 1)) \div 2
           /\ \A k \in 1..Len(all.pairs) :
                  /\ all.pairs[k].i >= 0
                  /\ all.pairs[k].i < all.pairs[k].j
                  /\ all.pairs[k].j < n
                  /\ all.pairs[k].score
                       = calculate_score(scorer, users[all.pairs[k].i + 1],
                                         users[all.pairs[k].j + 1]).score
           /\ \A i, j \in 0..(n - 1) :
                  i < j => Cardinality({k \in 1..Len(all.pairs) :
                                           all.pairs[k].i = i /\ all.pairs[k].j = j}) = 1

\* C19: a turn of the walk takes the next candidate; it commits the
\* candidate exactly when neither of its identities is in the matched set,
\* and then puts both identities in the set; otherwise it changes nothing.
\* Through the walk and its return the matched set and the list of pairings
\* only grow: a committed pairing stays where and what it is.
C19_CommitIffUnmatched ==
    [][ pc = "select"
        => /\ matched \subseteq matched'
           /\ Len(matches') >= Len(matches)
           /\ SubSeq(matches', 1, Len(matches)) = matches
           /\ pairs' = pairs
           /\ pc' = "select"
              => LET c    == pairs[cursor]
                     a    == users[c.i + 1].id
                     b    == users[c.j + 1].id
                     free == a \notin matched /\ b \notin matched
                 IN  /\ cursor' = cursor + 1
                     /\ free => /\ matches' = Append(matches,
                                       [user1_id |-> a, user2_id |-> b, score |-> c.score])
                                /\ matched' = matched \cup {a, b}
                     /\ ~free => /\ matches' = matches
                                 /\ matched' = matched
      ]_vars

\* A walk that has committed one candidate and skipped the next, with
\* candidates still to come.
C19_Witness ==
    /\ pc = "select"
    /\ cursor = 3
    /\ cursor <= Len(pairs)
    /\ Len(matches) = 1
    /\ Cardinality(matched) = 2

C21_DocumentedRange ==
    (/\ pc = "score"
     /\ scorer = PolarizationDefault
     /\ Len(users[1].responses) = SurveyQuestions
     /\ Len(users[2].responses) = SurveyQuestions
     /\ result.ab # NoResult)
    => /\ ~result.ab.panic
       /\ ~FLess(result.ab.score, FZero)
       /\ ~FLess(FFromInt(225), result.ab.score)

\* The weighted strategies the last constructor call handed to the caller:
\* the value of equal_weights, or the strategy inside an Ok of new.
Obtained ==
    IF "scorer" \in DOMAIN result THEN {result.scorer}
    ELSE IF "returned" \in DOMAIN result /\ result.returned.ok
         THEN {result.returned.scorer}
         ELSE {}

\* C22: every weighted strategy obtained from a public constructor (new
\* returning Ok, or equal_weights(n) for any n, 0 included) holds a weight
\* vector that is not empty and whose entries are all strictly positive.
C22_ConstructedWeightsValid ==
    \A s \in Obtained :
        /\ s.weights # <<>>
        /\ \A k \in 1..Len(s.weights) : FLess(FZero, s.weights[k])

\* The pairings of ms that identity id takes part in.
PairingsWith(ms, id) ==
    {k \in 1..Len(ms) : id \in {ms[k].user1_id, ms[k].user2_id}}

RECURSIVE SumScoresFrom(_, _)
SumScoresFrom(ms, k) ==
    IF k > Len(ms) THEN FZero
    ELSE FAdd(ms[k].score, SumScoresFrom(ms, k + 1))

\* The sets of candidate pairs in which no participant occurs twice.
DisjointPairings ==
    {S \in SUBSET (1..Len(candidates)) :
        \A k, l \in S :
            k # l => {candidates[k].i, candidates[k].j}
                     \cap {candidates[l].i, candidates[l].j} = {}}

\* The sum of the scores of the candidate pairs of S.
RECURSIVE TotalOfSet(_)
TotalOfSet(S) ==
    IF S = {} THEN FZero
    ELSE LET k == CHOOSE x \in S : TRUE
         IN  FAdd(candidates[k].score, TotalOfSet(S \ {k}))

\* C24: with distinct identities and scores that are not negative, twice
\* the sum of the scores of the pairings returned is at least the total of
\* every set of disjoint pairings over the same participants, the greatest
\* such total included.
C24_AtLeastHalfOfBest ==
    (/\ pc = "done"
     /\ DistinctIds(users)
     /\ \A k \in 1..Len(candidates) : ~FLess(candidates[k].score, FZero))
    => LET twice == FMul(FFromInt(2), SumScoresFrom(matches, 1))
       IN  \A S \in DisjointPairings : ~FLess(twice, TotalOfSet(S))

\* A finished walk whose pairings total more than nothing and strictly
\* less than another set of disjoint pairings.
C24_Witness ==
    /\ pc = "done"
    /\ DistinctIds(users)
    /\ FLess(FZero, SumScoresFrom(matches, 1))
    /\ \E S \in DisjointPairings :
           FLess(SumScoresFrom(matches, 1), TotalOfSet(S))

====
